---------------------------- MODULE Spec2Model ----------------------------
(***************************************************************************)
(* Model of the legal-document RAG playground: the chunk splitter and      *)
(* chunk assembler of json_to_rag_chunks.py and the grouping / retrieval   *)
(* pipelines of the *_retrieval_pipeline*.py files.                        *)
(*                                                                         *)
(* Strings are sequences of one-character strings, so that formatting,     *)
(* trimming and slicing are computed as Python computes them.  Python's    *)
(* 0-based indices are kept in the variables (start, end); PyAt and        *)
(* PySlice translate them to TLA+'s 1-based sequences.                     *)
(***************************************************************************)
EXTENDS Integers, Sequences, FiniteSets, TLC

VARIABLES
    \* ---- DocumentProcessor._split_text --------------------------------
    max_chunk_chars,   \* self.max_chunk_chars
    overlap,           \* self.overlap
    text,              \* the argument of _split_text
    spc,               \* position in _split_text: "off", "call", "loop", "done"
    start,             \* local start
    end,               \* local end of the latest iteration
    chunks,            \* local chunks (the returned list once spc = "done")
    cuts,              \* history: the <<start, end>> range of every window cut
    raw_hit,           \* history: the latest cut was placed after the raw cut point
    \* ---- DocumentProcessor.process_json_file / process_document ------
    dpc,               \* "off", "corpus" (between documents), "doc" (in the articles loop)
    corpus,            \* the input file: the set of article records its documents hold
    law_id,            \* law_id of the document being processed
    emitted,           \* the chunk objects written so far, in order
    article_count,     \* process_json_file's running count of written chunks
    articles_seen,     \* history: how many articles have been processed
    last,              \* history: the article processed last, with what was derived from it
    rerun_ids,         \* history: chunk ids of a second assembly of that same article
    \* ---- the retrievers (retrieve, vector_search, rerank, group_results) --
    rpc,               \* "off", "idle" (constructed), "returned" (retrieve has returned),
                       \* "grouped" (group_results, called on its own, has returned),
                       \* "reranked" (rerank, called on its own, has returned)
    use_reranker,      \* the retriever class has a reranker (Categorized / plain vs NoReranker)
    store,             \* the collection: a sequence of points [id, payload]
    query,             \* the arguments of retrieve: category, top_k, search_k
    candidates,        \* retrieve's local candidates (what vector_search returned)
    reranked,          \* retrieve's local reranked (with a reranker)
    grouped,           \* retrieve's local grouped (what group_results returned)
    result,            \* what retrieve returned
    calls,             \* history: the steps entered by the latest call, in order
    predicted,         \* history: the scores reranker.predict returned, in pair order
    \* ---- VectorDBBuilderFixed (create_vector_db.py); it writes to store ----
    bpc,               \* "off", "start" (before a run of main), "import_error",
                       \* "loaded", "ready" (builder constructed), "ingesting"
    source_dir,        \* the files of processed_docs: [base, ext, raw_chunks]
    stream,            \* the documents read_processed_files has still to yield
    batch_docs,        \* embed_and_upsert's local batch_docs
    count,             \* embed_and_upsert's local count
    runs,              \* history: how many runs of main have ended
    batches,           \* history: the batches given to _process_batch in this run
    first_store        \* history: the store as the first run left it

splitVars == <<max_chunk_chars, overlap, text, spc, start, end, chunks, cuts, raw_hit>>
docVars == <<dpc, corpus, law_id, emitted, article_count, articles_seen, last, rerun_ids>>

retrVars == <<rpc, use_reranker, store, query, candidates, reranked, grouped, result, calls, predicted>>

dbVars == <<bpc, source_dir, stream, batch_docs, count, runs, batches, first_store>>

vars == <<splitVars, docVars, retrVars, dbVars>>

-----------------------------------------------------------------------------
(* Bounds of the model *)

MaxTextLen == 6
MaxChars == 3
MaxOverlap == 4
MaxIter == 7
MaxArticles == 2
MaxK == 3

(* Program constants *)

NewlineLookback == 100
SpaceLookback == 50

-----------------------------------------------------------------------------
(* Helpers *)

MinOf(a, b) == IF a <= b THEN a ELSE b
MaxOf(a, b) == IF a >= b THEN a ELSE b
SetMax(S) == CHOOSE x \in S : \A y \in S : y <= x
SetMin(S) == CHOOSE x \in S : \A y \in S : x <= y

NL == "\n"
SP == " "
Alphabet == {"a", SP, NL}

SeqsUpTo(S, n) == UNION {[1..k -> S] : k \in 0..n}

Texts == SeqsUpTo(Alphabet, MaxTextLen)

(* text[i] and text[a:b] of Python, for 0 <= a <= b <= len(text) *)
PyAt(s, i) == s[i + 1]
PySlice(s, a, b) == SubSeq(s, a + 1, b)

(* str.strip(): leading and trailing whitespace removed *)
IsSpace(c) == c \in {SP, NL}
Strip(s) ==
    LET keep == {i \in 1..Len(s) : ~IsSpace(s[i])}
    IN  IF keep = {} THEN <<>> ELSE SubSeq(s, SetMin(keep), SetMax(keep))

-----------------------------------------------------------------------------
(* DocumentProcessor._split_text, json_to_rag_chunks.py 177-230 *)

(* range(end, max(start, end - back), -1): end down to max(..) + 1 *)
LookbackRange(st, e, back) == (MaxOf(st, e - back) + 1)..e

(* lines 195-208: the split point found by the two backward searches, -1 if none *)
SplitPoint(t, st, e) ==
    LET nl == {i \in LookbackRange(st, e, NewlineLookback) : PyAt(t, i) = NL}
        sp == {i \in LookbackRange(st, e, SpaceLookback) : PyAt(t, i) = SP}
    IN  IF nl # {} THEN SetMax(nl) + 1
        ELSE IF sp # {} THEN SetMax(sp) + 1
        ELSE -1

(* lines 190-211: the end of the window that starts at st *)
CutEnd(t, st, maxc) ==
    LET e == MinOf(st + maxc, Len(t))
    IN  IF e < Len(t) /\ SplitPoint(t, st, e) # -1 THEN SplitPoint(t, st, e) ELSE e

(* line 213: the window as it is appended *)
WindowGap(t, st, e) == PySlice(t, st, e)
Window(t, st, e) == Strip(PySlice(t, st, e))

(* lines 214-215: a window is appended unless trimming left it empty *)
AppendWindowAlways(chs, w) == Append(chs, w)
AppendWindow(chs, w) == IF w # <<>> THEN Append(chs, w) ELSE chs

(* lines 223-228: the next start *)
NextStartBehind(e, ov) == MaxOf(0, e - ov - 1)
NextStartGap(e, ov) == e + 1
NextStart(e, ov) ==
    LET s1 == e - ov
        s2 == IF s1 < 0 THEN 0 ELSE s1
    IN  IF s2 >= e THEN e ELSE s2

(* lines 182-183: the result for a text within the budget *)
ShortResultTrimmed(t) == <<Strip(t)>>
ShortResult(t) == <<t>>

SplitInit ==
    /\ max_chunk_chars \in 1..MaxChars
    /\ overlap \in (-1)..MaxOverlap
    /\ text \in Texts
    /\ spc = "call"
    /\ start = 0
    /\ end = 0
    /\ chunks = <<>>
    /\ cuts = <<>>
    /\ raw_hit = FALSE

(* lines 182-187 *)
SplitEnter ==
    /\ spc = "call"
    /\ IF Len(text) <= max_chunk_chars
       THEN /\ chunks' = ShortResult(text)
            /\ cuts' = <<<<0, Len(text)>>>>
            /\ spc' = "done"
       ELSE /\ chunks' = <<>>
            /\ cuts' = <<>>
            /\ spc' = "loop"
    /\ start' = 0
    /\ UNCHANGED <<max_chunk_chars, overlap, text, end, raw_hit>>

(* lines 189-228: one iteration of the while loop (or its exit) *)
SplitIter ==
    /\ spc = "loop"
    /\ Len(cuts) < MaxIter
    /\ IF start < Len(text)
       THEN LET e == CutEnd(text, start, max_chunk_chars)
                w == Window(text, start, e)
            IN  /\ end' = e
                /\ chunks' = AppendWindow(chunks, w)
                /\ cuts' = Append(cuts, <<start, e>>)
                /\ raw_hit' = (e > start + max_chunk_chars)
                /\ IF e >= Len(text)
                   THEN /\ spc' = "done"
                        /\ start' = start
                   ELSE /\ spc' = "loop"
                        /\ start' = NextStart(e, overlap)
       ELSE /\ spc' = "done"
            /\ UNCHANGED <<start, end, chunks, cuts, raw_hit>>
    /\ UNCHANGED <<max_chunk_chars, overlap, text>>

(* the document processor is not running *)
NoArticle == [seen |-> FALSE]
NoRun == <<"none">>
DocOff ==
    /\ dpc = "off"
    /\ corpus = {}
    /\ law_id = <<>>
    /\ emitted = <<>>
    /\ article_count = 0
    /\ articles_seen = 0
    /\ last = NoArticle
    /\ rerun_ids = NoRun

(* no retriever is constructed *)
NoQuery == [category |-> "None", top_k |-> 0, search_k |-> 0]
RetrOff ==
    /\ rpc = "off"
    /\ use_reranker = FALSE
    /\ store = <<>>
    /\ query = NoQuery
    /\ candidates = <<>>
    /\ reranked = <<>>
    /\ grouped = <<>>
    /\ result = <<>>
    /\ calls = <<>>
    /\ predicted = <<>>

(* no vector database builder is running *)
NoStore == <<"none">>
DbOff ==
    /\ bpc = "off"
    /\ source_dir = <<>>
    /\ stream = <<>>
    /\ batch_docs = <<>>
    /\ count = 0
    /\ runs = 0
    /\ batches = <<>>
    /\ first_store = NoStore

SplitSpecInit == SplitInit /\ DocOff /\ RetrOff /\ DbOff

SplitNext ==
    \/ SplitEnter /\ UNCHANGED <<docVars, retrVars, dbVars>>
    \/ SplitIter /\ UNCHANGED <<docVars, retrVars, dbVars>>

SpecSplit == SplitSpecInit /\ [][SplitNext]_vars


-----------------------------------------------------------------------------
(* Properties of _split_text, checked under SpecSplit *)

LastCut == cuts[Len(cuts)]

(* C1: _split_text terminates for every text and configuration: the window
   start strictly advances on every iteration of the while loop. *)
C1_StartAdvances ==
    [][(spc = "loop" /\ spc' = "loop") => start' > start]_vars

(* C2: the cut ranges [start, end) begin at 0, each next start is at most the
   previous end, and when the split returns they end at len(text), so every
   character position of the text lies inside some window's cut range. *)
C2_CutsCoverText ==
    /\ cuts # <<>> => cuts[1][1] = 0
    /\ \A k \in 1..(Len(cuts) - 1) :
          /\ cuts[k + 1][1] >= 0
          /\ cuts[k + 1][1] <= cuts[k][2]
    /\ spc = "done" =>
          /\ cuts # <<>>
          /\ LastCut[2] = Len(text)
          /\ \A p \in 0..(Len(text) - 1) :
                \E k \in 1..Len(cuts) : cuts[k][1] <= p /\ p < cuts[k][2]

(* a returned split of three or more windows, with overlap, one of them cut
   short by the boundary lookback *)
C2_Witness ==
    /\ spc = "done"
    /\ Len(cuts) >= 3
    /\ overlap > 0
    /\ \E k \in 1..(Len(cuts) - 1) : cuts[k][2] < cuts[k][1] + max_chunk_chars

(* C3: for a text longer than max_chars every window in the output has at most
   max_chars characters, also when the cut is placed after a newline or space
   found exactly at the raw cut point. *)
C3_WindowWithinBudget ==
    Len(text) > max_chunk_chars =>
        \A k \in 1..Len(chunks) : Len(chunks[k]) <= max_chunk_chars

(* the latest cut lies one past the raw cut point and its window, trimmed,
   fills the whole budget *)
C3_Witness ==
    /\ raw_hit
    /\ chunks # <<>>
    /\ Len(Window(text, LastCut[1], LastCut[2])) = max_chunk_chars
    /\ chunks[Len(chunks)] = Window(text, LastCut[1], LastCut[2])

(* C4: a text of at most max_chars characters is returned as the one-element
   list holding the text itself, unmodified, whatever the overlap. *)
C4_ShortTextReturnedWhole ==
    (spc = "done" /\ Len(text) <= max_chunk_chars) => chunks = <<text>>

(* a short text with surrounding whitespace, under an overlap no smaller than
   the budget, returned untrimmed *)
C4_Witness ==
    /\ spc = "done"
    /\ Len(text) <= max_chunk_chars
    /\ Strip(text) # text
    /\ overlap >= max_chunk_chars
    /\ chunks = <<text>>


-----------------------------------------------------------------------------
(* JSON values as ijson delivers them, and the Python operations the chunk
   assembler applies to them *)

Missing == [t |-> "missing", n |-> 0, s |-> <<>>]     \* the key is absent
Null == [t |-> "null", n |-> 0, s |-> <<>>]           \* None
JBool(b) == [t |-> "bool", n |-> IF b THEN 1 ELSE 0, s |-> <<>>]
JInt(k) == [t |-> "int", n |-> k, s |-> <<>>]
JStr(str) == [t |-> "str", n |-> 0, s |-> str]

(* dict.get(key, default) and dict.get(key) *)
DictGet(j, default) == IF j.t = "missing" THEN default ELSE j
DictGetNone(j) == IF j.t = "missing" THEN Null ELSE j

DigitChar(d) ==
    CASE d = 0 -> "0" [] d = 1 -> "1" [] d = 2 -> "2" [] d = 3 -> "3"
      [] d = 4 -> "4" [] d = 5 -> "5" [] d = 6 -> "6" [] d = 7 -> "7"
      [] d = 8 -> "8" [] d = 9 -> "9"

RECURSIVE IntToStr(_)
IntToStr(k) ==
    IF k < 10 THEN <<DigitChar(k)>>
    ELSE Append(IntToStr(k \div 10), DigitChar(k % 10))

(* str(x), also what an f-string field formats *)
PyStr(j) ==
    CASE j.t = "str" -> j.s
      [] j.t = "int" -> IntToStr(j.n)
      [] j.t = "bool" -> IF j.n = 1 THEN <<"T", "r", "u", "e">>
                         ELSE <<"F", "a", "l", "s", "e">>
      [] j.t = "null" -> <<"N", "o", "n", "e">>

(* truth value of x in a condition *)
Truthy(j) ==
    CASE j.t = "str" -> j.s # <<>>
      [] j.t = "int" -> j.n # 0
      [] j.t = "bool" -> j.n = 1
      [] j.t = "null" -> FALSE

-----------------------------------------------------------------------------
(* DocumentProcessor.process_document, json_to_rag_chunks.py 62-175 *)

(* _split_text run to its return: ok is FALSE when the loop does not end.  A
   run that ends visits every start at most once, so len(text) + 1 iterations
   decide it. *)
RECURSIVE SplitLoop(_, _, _, _, _, _)
SplitLoop(t, maxc, ov, st, acc, fuel) ==
    IF fuel = 0 THEN [ok |-> FALSE, chunks |-> acc]
    ELSE IF ~(st < Len(t)) THEN [ok |-> TRUE, chunks |-> acc]
    ELSE LET e == CutEnd(t, st, maxc)
             w == Window(t, st, e)
             acc2 == IF w # <<>> THEN Append(acc, w) ELSE acc
         IN  IF e >= Len(t) THEN [ok |-> TRUE, chunks |-> acc2]
             ELSE SplitLoop(t, maxc, ov, NextStart(e, ov), acc2, fuel - 1)

SplitText(t, maxc, ov) ==
    IF Len(t) <= maxc THEN [ok |-> TRUE, chunks |-> ShortResult(t)]
    ELSE SplitLoop(t, maxc, ov, 0, <<>>, Len(t) + 1)

(* line 69 *)
LawId(element_id) == PyStr(DictGet(element_id, JStr(<<"u", "n", "k", "n", "o", "w", "n">>)))

(* lines 93-94 *)
ArticleNumber(art) == DictGet(art.article_number, JStr(<<>>))
ArticleTitle(art) == DictGet(art.article_title, JStr(<<>>))

(* lines 97-98 *)
IsCanceled(art) == PyStr(DictGet(art.is_canceled, JStr(<<"0">>)))
StatusStr(art) == IF IsCanceled(art) = <<"1">> THEN "canceled" ELSE "active"

(* lines 115-127: the effective text *)
ContentText(art) ==
    LET raw_content == DictGet(art.article_content, JStr(<<>>))
        original_content == DictGetNone(art.original_content)
        chosen == IF IsCanceled(art) = <<"1">> /\ Truthy(original_content)
                  THEN original_content ELSE raw_content
        content_text == IF ~Truthy(chosen) THEN <<>> ELSE chosen.s
    IN  Strip(content_text)

(* line 138: hashlib.md5(...).hexdigest(), taken as a collision-free digest *)
Md5Hex(str) == <<"md5", str>>

(* lines 137-138 *)
ChunkIdByCount(law, art, i) ==
    Md5Hex(law \o <<"_">> \o PyStr(ArticleTitle(art)) \o <<"_">> \o IntToStr(article_count + i))
ChunkId(law, art, i) ==
    Md5Hex(law \o <<"_">> \o PyStr(ArticleTitle(art)) \o <<"_">> \o IntToStr(i))

(* line 142 *)
ArticleUniqueId(law, art) == law \o <<"_">> \o PyStr(ArticleNumber(art))

(* lines 134-173: the chunk objects of one article, window index i from 0 *)
ChunkObj(law, art, windows, i) ==
    [id |-> ChunkId(law, art, i),
     article_group_id |-> ArticleUniqueId(law, art),
     chunk_index |-> i,
     total_chunks_in_article |-> Len(windows),
     text_content |-> windows[i + 1],
     law_id |-> law,
     article_number |-> ArticleNumber(art),
     article_title |-> ArticleTitle(art),
     status |-> StatusStr(art)]

ArticleChunks(law, art, windows) ==
    [k \in 1..Len(windows) |-> ChunkObj(law, art, windows, k - 1)]

ChunkIds(cs) == [k \in 1..Len(cs) |-> cs[k].id]

(* the inputs *)
ElementIds == {JInt(1), Missing}

IsCanceledValues ==
    {Missing, Null, JBool(TRUE), JBool(FALSE),
     JStr(<<"1">>), JStr(<<"0">>), JInt(1), JInt(0)}
OriginalValues == {Missing, Null, JStr(<<>>), JStr(<<SP, "X">>)}
ContentValues == {Missing, Null, JStr(<<"Y", SP>>)}
LongContent == JStr(<<"a", "a", SP, "a", "a">>)

(* the processor's configurations: max_chunk_chars, overlap *)
DocConfigs == {<<2, 0>>, <<3, 1>>}

(* articles that vary in cancellation state and content *)
ContentArticles ==
    [article_number : {JStr(<<"1">>)}, article_title : {JStr(<<"A">>)},
     is_canceled : IsCanceledValues, original_content : OriginalValues,
     article_content : ContentValues]

(* articles that vary in number, title and length *)
IdentityArticles ==
    [article_number : {Missing, JInt(2)},
     article_title : {Missing, JStr(<<"A">>)},
     is_canceled : {JStr(<<"0">>)}, original_content : {Missing},
     article_content : {JStr(<<"Y", SP>>), LongContent}]

DocInit ==
    /\ \E cfg \in DocConfigs : max_chunk_chars = cfg[1] /\ overlap = cfg[2]
    /\ text = <<>>
    /\ spc = "off"
    /\ start = 0
    /\ end = 0
    /\ chunks = <<>>
    /\ cuts = <<>>
    /\ raw_hit = FALSE
    /\ dpc = "corpus"
    /\ corpus \in {ContentArticles, IdentityArticles}
    /\ law_id = <<>>
    /\ emitted = <<>>
    /\ article_count = 0
    /\ articles_seen = 0
    /\ last = NoArticle
    /\ rerun_ids = NoRun

(* lines 45-46, 66-88: the next document of the stream; one without articles
   returns no chunks *)
BeginDocument ==
    /\ dpc = "corpus"
    /\ \E element_id \in ElementIds, has_articles \in BOOLEAN :
          /\ law_id' = LawId(element_id)
          /\ dpc' = IF has_articles THEN "doc" ELSE "corpus"
    /\ last' = NoArticle
    /\ rerun_ids' = NoRun
    /\ UNCHANGED <<splitVars, corpus, emitted, article_count, articles_seen>>

(* lines 91-173 and 47-49: one article of the document; its chunks are written *)
ProcessArticle ==
    /\ dpc = "doc"
    /\ articles_seen < MaxArticles
    /\ articles_seen' = articles_seen + 1
    /\ \E art \in corpus :
          LET content_text == ContentText(art)
              split == IF content_text = <<>>
                       THEN [ok |-> TRUE, chunks |-> <<>>]
                       ELSE SplitText(content_text, max_chunk_chars, overlap)
              out == ArticleChunks(law_id, art, split.chunks)
          IN  /\ split.ok
              /\ emitted' = emitted \o out
              /\ article_count' = article_count + Len(out)
              /\ last' = [seen |-> TRUE, art |-> art, status |-> StatusStr(art),
                          content_text |-> content_text, ids |-> ChunkIds(out)]
    /\ rerun_ids' = NoRun
    /\ UNCHANGED <<splitVars, dpc, corpus, law_id>>

(* process_document applied once more to the same law and article: the ids of
   the chunks it returns *)
Reassemble ==
    /\ dpc = "doc"
    /\ last.seen
    /\ rerun_ids = NoRun
    /\ LET content_text == ContentText(last.art)
           split == IF content_text = <<>>
                    THEN [ok |-> TRUE, chunks |-> <<>>]
                    ELSE SplitText(content_text, max_chunk_chars, overlap)
       IN  /\ split.ok
           /\ rerun_ids' = ChunkIds(ArticleChunks(law_id, last.art, split.chunks))
    /\ UNCHANGED <<splitVars, dpc, corpus, law_id, emitted, article_count, articles_seen, last>>

(* line 175 and 51: the document is finished *)
EndDocument ==
    /\ dpc = "doc"
    /\ dpc' = "corpus"
    /\ last' = NoArticle
    /\ rerun_ids' = NoRun
    /\ UNCHANGED <<splitVars, corpus, law_id, emitted, article_count, articles_seen>>

DocSpecInit == DocInit /\ RetrOff /\ DbOff

DocNext ==
    \/ BeginDocument /\ UNCHANGED <<retrVars, dbVars>>
    \/ ProcessArticle /\ UNCHANGED <<retrVars, dbVars>>
    \/ Reassemble /\ UNCHANGED <<retrVars, dbVars>>
    \/ EndDocument /\ UNCHANGED <<retrVars, dbVars>>

SpecDoc == DocSpecInit /\ [][DocNext]_vars


-----------------------------------------------------------------------------
(* Properties of process_document, checked under SpecDoc *)

(* the flag values the specification calls truthy: true, "1", 1 *)
FlagIsTruthy(j) == j \in {JBool(TRUE), JStr(<<"1">>), JInt(1)}

(* a field's text, a missing or null field taken as the empty string *)
FieldText(j) == IF j.t = "str" THEN j.s ELSE <<>>

(* C5: when the is_canceled flag is truthy (true, "1" or 1) and
   original_content is present and non-empty, the effective text is the
   trimmed original_content; in every other case it is the trimmed
   article_content, missing and null fields counting as empty. *)
C5_EffectiveTextSelection ==
    last.seen =>
        last.content_text =
            Strip(IF /\ FlagIsTruthy(last.art.is_canceled)
                     /\ FieldText(last.art.original_content) # <<>>
                  THEN FieldText(last.art.original_content)
                  ELSE FieldText(last.art.article_content))

SameArticle(c, d) ==
    /\ c.law_id = d.law_id
    /\ c.article_number = d.article_number
    /\ c.article_title = d.article_title

(* C6: two emitted chunks that differ in law, in article or in window index
   never have the same id. *)
C6_ChunkIdsUnique ==
    \A i, j \in 1..Len(emitted) :
        (~SameArticle(emitted[i], emitted[j])
           \/ emitted[i].chunk_index # emitted[j].chunk_index)
        => emitted[i].id # emitted[j].id

(* C7: assembling the same (law, article) a second time yields the same
   sequence of chunk ids as the first time. *)
C7_IdempotentChunkIds ==
    rerun_ids # NoRun => rerun_ids = last.ids

(* a second assembly of an article split into several windows, after chunks
   of other articles have been written in between *)
C7_Witness ==
    /\ rerun_ids # NoRun
    /\ Len(rerun_ids) >= 2
    /\ article_count > Len(rerun_ids)
    /\ rerun_ids = last.ids

(* the number if there is one, else the title *)
NumberOrTitle(c) ==
    IF PyStr(c.article_number) # <<>> THEN PyStr(c.article_number)
    ELSE PyStr(c.article_title)

(* C8: the group key is law.id with article.number, the title standing in for
   an absent or empty number, so that two number-less articles of one law
   with different titles get different group keys. *)
C8_GroupKeyFallsBackToTitle ==
    /\ \A i \in 1..Len(emitted) :
          emitted[i].article_group_id =
              emitted[i].law_id \o <<"_">> \o NumberOrTitle(emitted[i])
    /\ \A i, j \in 1..Len(emitted) :
          (/\ emitted[i].law_id = emitted[j].law_id
           /\ PyStr(emitted[i].article_number) = <<>>
           /\ PyStr(emitted[j].article_number) = <<>>
           /\ emitted[i].article_title # emitted[j].article_title)
          => emitted[i].article_group_id # emitted[j].article_group_id


-----------------------------------------------------------------------------
(* The retrievers: categorized_retrieval_pipeline.py (with a reranker) and
   categorized_retrieval_pipeline_without_reranker.py /
   retrieval_pipeline_without_reranker.py (without) *)

NoneVal == "<None>"              \* Python's None
ScoreSet == {1, 2, 3}            \* the score values drawn
PointIds == <<"p1", "p2", "p3">> \* the ids of the points a store may hold
QueryCategories == {NoneVal, "", "A"}

(* the payloads a point may carry: written without a group key by
   create_vector_db.py, or with the key of an article of law 1 or law 2 *)
PayloadKinds ==
    <<[article_group_id |-> NoneVal, categories |-> {"A", "B"}],
      [article_group_id |-> "1_1", categories |-> {"A"}],
      [article_group_id |-> "2_1", categories |-> {"B"}]>>

StorePoint(i, k) ==
    [id |-> PointIds[i],
     payload |-> [article_group_id |-> PayloadKinds[k].article_group_id,
                  categories |-> PayloadKinds[k].categories,
                  chunk_index |-> i]]

(* the stores drawn: up to Len(PointIds) points, payload kinds in id order
   (the code compares ids only for equality, so every store is one of these
   up to a renaming of the ids) *)
StoresOfSize(n) ==
    {[i \in 1..n |-> StorePoint(i, f[i])] :
        f \in {g \in [1..n -> 1..Len(PayloadKinds)] :
                  \A i \in 1..(n - 1) : g[i] <= g[i + 1]}}
Stores == UNION {StoresOfSize(n) : n \in 0..Len(PointIds)}

(* list[:k] for k >= 0 *)
PyPrefix(seq, k) == SubSeq(seq, 1, MinOf(k, Len(seq)))

(* sorted(seq, key, reverse=True): descending and stable; keys[i] is the key
   of seq[i] *)
StableSortDesc(seq, keys) ==
    LET n == Len(seq)
        Pos(i) == 1 + Cardinality({j \in 1..n : keys[j] > keys[i]})
                    + Cardinality({j \in 1..(i - 1) : keys[j] = keys[i]})
    IN  [p \in 1..n |-> seq[CHOOSE i \in 1..n : Pos(i) = p]]

(* vector_search, lines 41-52: the filter built from the category *)
NoFilter == NoneVal
QueryFilter(category) == IF category \in {NoneVal, ""} THEN NoFilter ELSE category

(* client.query_points, lines 54-60: the points that pass the filter
   (MatchAny on "categories"), best similarity first, at most limit of them.
   The similarities are the store's: every non-increasing assignment is
   drawn. *)
Matching(st, flt) ==
    {i \in 1..Len(st) : flt = NoFilter \/ flt \in st[i].payload.categories}

Similarities(n) ==
    {sc \in [1..n -> ScoreSet] : \A i \in 1..(n - 1) : sc[i] >= sc[i + 1]}

QueryPoints(st, flt, limit) ==
    LET M == Matching(st, flt)
        n == Cardinality(M)
        orders == {o \in [1..n -> M] : \A i, j \in 1..n : i # j => o[i] # o[j]}
    IN  {PyPrefix([i \in 1..n |-> [id |-> st[o[i]].id,
                                   score |-> sc[i],
                                   payload |-> st[o[i]].payload]], limit) :
            o \in orders, sc \in Similarities(n)}

AttachScoresReversed(cands, scores) ==
    [i \in 1..Len(cands) |->
        [id |-> cands[i].id, score |-> cands[i].score,
         payload |-> cands[i].payload,
         rerank_score |-> scores[Len(cands) + 1 - i]]]

(* rerank, lines 88-89: the predicted scores attached to the candidates *)
AttachScores(cands, scores) ==
    [i \in 1..Len(cands) |->
        [id |-> cands[i].id, score |-> cands[i].score,
         payload |-> cands[i].payload, rerank_score |-> scores[i]]]

(* rerank, line 91: the sort keys *)
RerankScores(rs) == [i \in 1..Len(rs) |-> rs[i].rerank_score]

(* rerank, lines 71-92 *)
Rerank(cands, scores, top_k) ==
    IF cands = <<>> THEN <<>>
    ELSE PyPrefix(StableSortDesc(AttachScores(cands, scores), RerankScores(AttachScores(cands, scores))), top_k)

(* group_results, lines 98-100: the group key of a result *)
GroupKey(res) ==
    IF res.payload.article_group_id \in {NoneVal, ""} THEN res.id
    ELSE res.payload.article_group_id

(* the score group_results reads: 'rerank_score' with a reranker, else 'score' *)
PrevailingScore(res, rr) == IF rr THEN res.rerank_score ELSE res.score

(* group_results, lines 102-112: one result taken into the grouped dict (kept
   in insertion order) *)
AbsorbLastSeen(gr, res, rr) ==
    LET hit == {k \in 1..Len(gr) : gr[k].group_id = GroupKey(res)}
    IN  IF hit = {}
        THEN Append(gr, [group_id |-> GroupKey(res),
                         best_score |-> PrevailingScore(res, rr),
                         primary_chunk |-> res,
                         all_chunks |-> <<res>>])
        ELSE LET k == CHOOSE x \in hit : TRUE
                 better == PrevailingScore(res, rr) >= gr[k].best_score
             IN  [gr EXCEPT ![k] =
                     [group_id |-> gr[k].group_id,
                      best_score |-> IF better THEN PrevailingScore(res, rr)
                                     ELSE gr[k].best_score,
                      primary_chunk |-> IF better THEN res ELSE gr[k].primary_chunk,
                      all_chunks |-> Append(gr[k].all_chunks, res)]]
Absorb(gr, res, rr) ==
    LET hit == {k \in 1..Len(gr) : gr[k].group_id = GroupKey(res)}
    IN  IF hit = {}
        THEN Append(gr, [group_id |-> GroupKey(res),
                         best_score |-> PrevailingScore(res, rr),
                         primary_chunk |-> res,
                         all_chunks |-> <<res>>])
        ELSE LET k == CHOOSE x \in hit : TRUE
                 better == PrevailingScore(res, rr) > gr[k].best_score
             IN  [gr EXCEPT ![k] =
                     [group_id |-> gr[k].group_id,
                      best_score |-> IF better THEN PrevailingScore(res, rr)
                                     ELSE gr[k].best_score,
                      primary_chunk |-> IF better THEN res ELSE gr[k].primary_chunk,
                      all_chunks |-> Append(gr[k].all_chunks, res)]]

(* group_results, lines 95-112: the loop over the results *)
RECURSIVE GroupLoop(_, _, _, _)
GroupLoop(results, k, gr, rr) ==
    IF k > Len(results) THEN gr
    ELSE GroupLoop(results, k + 1, Absorb(gr, results[k], rr), rr)

(* group_results, lines 114-121 *)
FinalOutput(gr) ==
    [k \in 1..Len(gr) |-> [score |-> gr[k].best_score,
                           payload |-> gr[k].primary_chunk.payload,
                           group_count |-> Len(gr[k].all_chunks)]]

(* group_results, line 123: the sort keys *)
OutputScores(out) == [i \in 1..Len(out) |-> out[i].score]

(* group_results, line 123 *)
SortByScoreMissing(out) == out
SortByScore(out) == StableSortDesc(out, OutputScores(out))

(* group_results, lines 94-124 *)
GroupResults(results, rr) == SortByScore(FinalOutput(GroupLoop(results, 1, <<>>, rr)))

RetrInit ==
    /\ rpc = "idle"
    /\ use_reranker \in BOOLEAN
    /\ store \in Stores
    /\ query = NoQuery
    /\ candidates = <<>>
    /\ reranked = <<>>
    /\ grouped = <<>>
    /\ result = <<>>
    /\ calls = <<>>
    /\ predicted = <<>>

RerankStepsAlwaysPredict(cands) == <<"rerank", "predict">>

(* the steps rerank enters, lines 71-92: reranker.predict is reached only past
   the early return of lines 72-73 *)
RerankSteps(cands) ==
    IF cands = <<>> THEN <<"rerank">> ELSE <<"rerank", "predict">>

(* the steps retrieve enters, lines 131-140 (with a reranker) and 106-115
   (without): no step is conditional on what the search returned *)
RetrieveSteps(rr, found) ==
    <<"encode", "search">>
        \o (IF rr THEN RerankSteps(found) ELSE <<>>)
        \o <<"group", "slice">>

(* retrieve, lines 126-140 (with a reranker) and 101-115 (without) *)
Retrieve ==
    /\ rpc = "idle"
    /\ \E category \in QueryCategories, top_k \in 0..MaxK, search_k \in 1..MaxK :
          /\ query' = [category |-> category, top_k |-> top_k, search_k |-> search_k]
          /\ \E found \in QueryPoints(store, QueryFilter(category), search_k) :
                /\ IF use_reranker
                   THEN \E scores \in [1..Len(found) -> ScoreSet] :
                           /\ predicted' = scores
                           /\ candidates' = AttachScores(found, scores)
                           /\ reranked' = Rerank(found, scores, search_k)
                           /\ grouped' = GroupResults(Rerank(found, scores, search_k), TRUE)
                           /\ result' = PyPrefix(GroupResults(Rerank(found, scores, search_k), TRUE), top_k)
                   ELSE /\ predicted' = <<>>
                        /\ candidates' = found
                        /\ reranked' = <<>>
                        /\ grouped' = GroupResults(found, FALSE)
                        /\ result' = PyPrefix(GroupResults(found, FALSE), top_k)
                /\ calls' = RetrieveSteps(use_reranker, found)
    /\ rpc' = "returned"
    /\ UNCHANGED <<use_reranker, store>>

(* a result list as a caller of group_results may pass it: distinct points in
   any order, each with the score the class reads ('rerank_score' with a
   reranker, else 'score') *)
ResultOf(point, sc, rr) ==
    IF rr THEN [id |-> point.id, payload |-> point.payload, rerank_score |-> sc]
    ELSE [id |-> point.id, payload |-> point.payload, score |-> sc]

ResultListsOfLen(st, n, rr) ==
    {[i \in 1..n |-> ResultOf(st[o[i]], sc[i], rr)] :
        o \in {f \in [1..n -> 1..Len(st)] : \A i, j \in 1..n : i # j => f[i] # f[j]},
        sc \in [1..n -> ScoreSet]}

ResultLists(st, rr) == UNION {ResultListsOfLen(st, n, rr) : n \in 0..Len(st)}

(* group_results called on its own, lines 94-124 *)
GroupResultsCall ==
    /\ rpc = "idle"
    /\ \E results \in ResultLists(store, use_reranker) :
          /\ IF use_reranker
             THEN reranked' = results /\ candidates' = <<>>
             ELSE candidates' = results /\ reranked' = <<>>
          /\ grouped' = GroupResults(results, use_reranker)
    /\ rpc' = "grouped"
    /\ calls' = <<"group">>
    /\ UNCHANGED <<use_reranker, store, query, result, predicted>>

(* rerank called on its own, lines 71-92, on what a vector_search returned:
   the scores are attached to the caller's dicts in place (lines 88-89) *)
RerankCall ==
    /\ rpc = "idle"
    /\ use_reranker
    /\ \E top_k \in 0..MaxK :
          /\ query' = [category |-> NoneVal, top_k |-> top_k, search_k |-> 0]
          /\ \E found \in QueryPoints(store, NoFilter, Len(store)) :
                \E scores \in [1..Len(found) -> ScoreSet] :
                    /\ predicted' = scores
                    /\ candidates' = AttachScores(found, scores)
                    /\ reranked' = Rerank(found, scores, top_k)
                    /\ calls' = RerankSteps(found)
    /\ rpc' = "reranked"
    /\ UNCHANGED <<use_reranker, store, grouped, result>>

(* the results are dropped; the retriever waits for the next query *)
NextQuery ==
    /\ rpc \in {"returned", "grouped", "reranked"}
    /\ rpc' = "idle"
    /\ query' = NoQuery
    /\ candidates' = <<>>
    /\ reranked' = <<>>
    /\ grouped' = <<>>
    /\ result' = <<>>
    /\ calls' = <<>>
    /\ predicted' = <<>>
    /\ UNCHANGED <<use_reranker, store>>

(* the chunker is not running *)
SplitOff ==
    /\ max_chunk_chars = 0
    /\ overlap = 0
    /\ text = <<>>
    /\ spc = "off"
    /\ start = 0
    /\ end = 0
    /\ chunks = <<>>
    /\ cuts = <<>>
    /\ raw_hit = FALSE

RetrSpecInit == RetrInit /\ SplitOff /\ DocOff /\ DbOff

RetrNext ==
    \/ Retrieve /\ UNCHANGED <<splitVars, docVars, dbVars>>
    \/ GroupResultsCall /\ UNCHANGED <<splitVars, docVars, dbVars>>
    \/ RerankCall /\ UNCHANGED <<splitVars, docVars, dbVars>>
    \/ NextQuery /\ UNCHANGED <<splitVars, docVars, dbVars>>

SpecRetrieve == RetrSpecInit /\ [][RetrNext]_vars

-----------------------------------------------------------------------------
(* RAGRetriever of retrieval_pipeline.py (vector search, rerank, no grouping)
   and the loop of test_retrieval_pipeline.py that prints its results.  rpc is
   "idle", "plain_returned" (retrieve has returned), "written" (the test has
   written the results), "KeyError" (the test has raised) *)

(* payload.get('text', ''), line 127 *)
PayloadText(p) == IF "text" \in DOMAIN p THEN p.text ELSE ""

(* {k: v for k, v in payload.items() if k != 'text'}, line 128 *)
PayloadMetadata(p) == [k \in (DOMAIN p) \ {"text"} |-> p[k]]

(* retrieve, lines 120-131: the formatted output *)
Formatted(final_results) ==
    [k \in 1..Len(final_results) |->
        [rank |-> k,
         score |-> final_results[k].rerank_score,
         initial_score |-> final_results[k].score,
         content |-> PayloadText(final_results[k].payload),
         metadata |-> PayloadMetadata(final_results[k].payload)]]

(* RAGRetriever.retrieve, lines 99-131: rerank is called with top_k *)
PlainRetrieve ==
    /\ rpc = "idle"
    /\ \E top_k \in 0..MaxK, search_k \in 1..MaxK :
          /\ query' = [category |-> NoneVal, top_k |-> top_k, search_k |-> search_k]
          /\ \E found \in QueryPoints(store, NoFilter, search_k) :
                \E scores \in [1..Len(found) -> ScoreSet] :
                    /\ predicted' = scores
                    /\ candidates' = AttachScores(found, scores)
                    /\ reranked' = Rerank(found, scores, top_k)
                    /\ result' = Formatted(Rerank(found, scores, top_k))
                    /\ calls' = <<"encode", "search">> \o RerankSteps(found) \o <<"format">>
    /\ rpc' = "plain_returned"
    /\ UNCHANGED <<use_reranker, store, grouped>>

(* test_retrieval_pipeline.py, lines 73-88: the loop over the results reads
   res['payload'] of each; a missing key raises KeyError out of main *)
TestWriteResults ==
    /\ rpc = "plain_returned"
    /\ rpc' = IF \E k \in 1..Len(result) : "payload" \notin DOMAIN result[k]
              THEN "KeyError" ELSE "written"
    /\ UNCHANGED <<use_reranker, store, query, candidates, reranked, grouped,
                   result, calls, predicted>>

(* test_retrieval_pipeline.py, line 61: the next query of the loop *)
TestNextQuery ==
    /\ rpc = "written"
    /\ rpc' = "idle"
    /\ query' = NoQuery
    /\ candidates' = <<>>
    /\ reranked' = <<>>
    /\ result' = <<>>
    /\ calls' = <<>>
    /\ predicted' = <<>>
    /\ UNCHANGED <<use_reranker, store, grouped>>

(* RAGRetriever.__init__, lines 32-45 *)
PlainInit ==
    /\ rpc = "idle"
    /\ use_reranker = TRUE
    /\ store \in Stores
    /\ query = NoQuery
    /\ candidates = <<>>
    /\ reranked = <<>>
    /\ grouped = <<>>
    /\ result = <<>>
    /\ calls = <<>>
    /\ predicted = <<>>

PlainSpecInit == PlainInit /\ SplitOff /\ DocOff /\ DbOff

PlainNext ==
    \/ PlainRetrieve /\ UNCHANGED <<splitVars, docVars, dbVars>>
    \/ TestWriteResults /\ UNCHANGED <<splitVars, docVars, dbVars>>
    \/ TestNextQuery /\ UNCHANGED <<splitVars, docVars, dbVars>>

SpecPlain == PlainSpecInit /\ [][PlainNext]_vars


-----------------------------------------------------------------------------
(* Properties of group_results and retrieve, checked under SpecRetrieve *)

(* group_results has returned, inside retrieve or called on its own *)
Grouped == rpc \in {"returned", "grouped"}

(* what was handed to group_results *)
GroupInput == IF use_reranker THEN reranked ELSE candidates

(* the group key as the specification defines it: the payload's
   article_group_id, or the chunk's own id when the field is absent *)
KeyOf(res) ==
    IF res.payload.article_group_id = NoneVal THEN res.id
    ELSE res.payload.article_group_id

(* the positions of the input that share the key of position k *)
Partition(k) == {j \in 1..Len(GroupInput) : KeyOf(GroupInput[j]) = KeyOf(GroupInput[k])}

ScoreAt(k) == PrevailingScore(GroupInput[k], use_reranker)

(* position k holds its partition's maximum score, and is the first to *)
IsRepresentative(k) ==
    /\ \A j \in Partition(k) : ScoreAt(j) <= ScoreAt(k)
    /\ \A j \in Partition(k) : ScoreAt(j) = ScoreAt(k) => k <= j

RECURSIVE SumCounts(_, _)
SumCounts(out, k) == IF k > Len(out) THEN 0 ELSE out[k].group_count + SumCounts(out, k + 1)

(* C9: group_results emits exactly one result per distinct group key of its
   input: its score is the partition's maximum prevailing score, its payload
   that of the first chunk holding that maximum, its group_count the
   partition's size; the group_counts sum to len(results). *)
C9_GroupResultsPartition ==
    Grouped =>
        /\ Len(grouped) = Cardinality({KeyOf(GroupInput[k]) : k \in 1..Len(GroupInput)})
        /\ \A k \in 1..Len(GroupInput) :
              IsRepresentative(k) =>
                  \E g \in 1..Len(grouped) :
                      /\ grouped[g].payload = GroupInput[k].payload
                      /\ grouped[g].score = ScoreAt(k)
                      /\ grouped[g].group_count = Cardinality(Partition(k))
        /\ SumCounts(grouped, 1) = Len(GroupInput)

(* the input [{G1, 1}, {G1, 3}, {G2, 2}] of the specification's example, and
   its output [{G1, best 3, count 2}, {G2, best 2, count 1}] *)
C9_Witness ==
    /\ rpc = "grouped"
    /\ Len(GroupInput) = 3
    /\ KeyOf(GroupInput[1]) = "1_1" /\ ScoreAt(1) = 1
    /\ KeyOf(GroupInput[2]) = "1_1" /\ ScoreAt(2) = 3
    /\ KeyOf(GroupInput[3]) = "2_1" /\ ScoreAt(3) = 2
    /\ Len(grouped) = 2
    /\ grouped[1].score = 3 /\ grouped[1].group_count = 2
    /\ grouped[1].payload = GroupInput[2].payload
    /\ grouped[2].score = 2 /\ grouped[2].group_count = 1

(* C10: the list group_results returns, and the list retrieve returns after
   the top_k slice, are ordered by score descending. *)
C10_SortedByBestScore ==
    Grouped =>
        /\ \A k \in 1..(Len(grouped) - 1) : grouped[k].score >= grouped[k + 1].score
        /\ \A k \in 1..(Len(result) - 1) : result[k].score >= result[k + 1].score

(* three groups first seen in ascending order of their scores, returned in
   descending order *)
C10_Witness ==
    /\ rpc = "grouped"
    /\ Len(GroupInput) = 3
    /\ ScoreAt(1) < ScoreAt(2) /\ ScoreAt(2) < ScoreAt(3)
    /\ Len(grouped) = 3
    /\ grouped[1].payload = GroupInput[3].payload
    /\ grouped[3].payload = GroupInput[1].payload

-----------------------------------------------------------------------------
(* VectorDBBuilderFixed of create_vector_db.py: the files of processed_docs
   are read, cut into chunks, embedded in batches and upserted into the
   collection (the variable store).  A chunk text is [header, body]: header
   is what the three header lines the regular expressions of lines 72-78 look
   for hold, [present, doc_id, law_name, categories], or NoHeader when the
   text has no such line; body is the rest of the text. *)

BATCH_SIZE == 16
MaxChunks == 17      \* the chunks a directory holds at most
MaxRuns == 2         \* the runs of main
MaxPartial == 1      \* the points a failing upsert has written at most

(* the piece re.split leaves before the first separator *)
NoHeader == [present |-> FALSE]
BlankText == [header |-> NoHeader, body |-> <<>>]

ChunkTextOf(i, header) == [header |-> header, body |-> IntToStr(i) \o <<NL>>]

FileOf(base, ext, n, header) ==
    [base |-> base, ext |-> ext,
     raw_chunks |-> <<BlankText>> \o [i \in 1..n |-> ChunkTextOf(i, header)]]

HeaderA == [present |-> TRUE, doc_id |-> <<"7">>, law_name |-> "L1", categories |-> <<"A">>]
HeaderAB == [present |-> TRUE, doc_id |-> <<"8">>, law_name |-> "L2", categories |-> <<"A", "B">>]

(* the directories drawn: one file that fills a batch and starts a second;
   two files whose chunks share the first batch; only the .jsonl file that
   json_to_rag_chunks.py writes; an empty directory *)
SourceDirs ==
    {<<FileOf(<<"1", "0", "8", "1">>, ".txt", MaxChunks, HeaderA),
       FileOf(<<"l", "_", "c", "h", "u", "n", "k", "s">>, ".jsonl", 1, NoHeader)>>,
     <<FileOf(<<"1", "0", "8", "1">>, ".txt", MaxChunks - 2, NoHeader),
       FileOf(<<"1", "0", "8", "2">>, ".txt", 2, HeaderAB)>>,
     <<FileOf(<<"l", "_", "c", "h", "u", "n", "k", "s">>, ".jsonl", 1, NoHeader)>>,
     <<>>}

(* lines 117-120: the chunks of a file, blank pieces dropped, each stripped *)
NonBlank(c) == c.header.present \/ Strip(c.body) # <<>>
StripChunk(c) == [header |-> c.header, body |-> Strip(c.body)]
FileChunks(file) ==
    LET kept == SelectSeq(file.raw_chunks, NonBlank)
    IN  [k \in 1..Len(kept) |-> StripChunk(kept[k])]

(* extract_metadata_from_chunk, lines 53-95, and the payload of lines 133-139:
   the extracted doc_id overrides the file's.  A key the payload lacks is
   NoneVal (categories: no label); article_group_id is never written. *)
Metadata(file, chunk_idx, chunk_text) ==
    [source_file |-> <<file.base, file.ext>>,
     doc_id |-> IF ~chunk_text.header.present THEN file.base
                ELSE chunk_text.header.doc_id,
     chunk_index |-> chunk_idx,
     text_content |-> chunk_text,
     law_name |-> IF ~chunk_text.header.present THEN NoneVal
                  ELSE chunk_text.header.law_name,
     categories |-> IF ~chunk_text.header.present THEN {}
                    ELSE {chunk_text.header.categories[i] :
                            i \in 1..Len(chunk_text.header.categories)},
     article_group_id |-> NoneVal]

(* lines 130-140: the document yielded for chunk chunk_idx of a file *)
DocOf(file, chunk_idx, chunk_text) ==
    [id |-> file.base \o <<"_">> \o IntToStr(chunk_idx),
     text |-> chunk_text,
     metadata |-> Metadata(file, chunk_idx, chunk_text)]

FileDocs(file) ==
    LET chunks_ == FileChunks(file)
    IN  [k \in 1..Len(chunks_) |-> DocOf(file, k - 1, chunks_[k])]

(* read_processed_files, lines 97-146: the .txt files in listing order *)
RECURSIVE ReadProcessedFiles(_, _, _)
ReadProcessedFiles(dir, order, k) ==
    IF k > Len(order) THEN <<>>
    ELSE (IF dir[order[k]].ext = ".txt" THEN FileDocs(dir[order[k]]) ELSE <<>>)
            \o ReadProcessedFiles(dir, order, k + 1)

(* os.listdir returns the files in an arbitrary order *)
Listings(dir) ==
    {o \in [1..Len(dir) -> 1..Len(dir)] : \A i, j \in 1..Len(dir) : i # j => o[i] # o[j]}

(* line 199: uuid5 of the document id, taken as a collision-free digest *)
PointId(doc) == <<"uuid5", doc.id>>

(* lines 196-205: the points of a batch *)
PointsOf(docs) ==
    [i \in 1..Len(docs) |-> [id |-> PointId(docs[i]), payload |-> docs[i].metadata]]

UpsertPointAppend(st, pt) == Append(st, pt)

(* client.upsert of one point: a point of the same id is replaced *)
UpsertPoint(st, pt) ==
    IF \E i \in 1..Len(st) : st[i].id = pt.id
    THEN [i \in 1..Len(st) |-> IF st[i].id = pt.id THEN pt ELSE st[i]]
    ELSE Append(st, pt)

(* client.upsert of the first k points of a list *)
RECURSIVE Upsert(_, _, _)
Upsert(st, points, k) ==
    IF k = 0 THEN st ELSE UpsertPoint(Upsert(st, points, k - 1), points[k])

(* how a call of _process_batch on n documents may end: every point written;
   encoder.encode raised, nothing written; client.upsert raised after it had
   written some of the points (the local client writes them one by one) *)
PartialWrites(n) == 0..MinOf(MaxPartial, n - 1)
BatchOutcomes(n) ==
    {[kind |-> "ok", written |-> n], [kind |-> "encode_error", written |-> 0]}
        \cup {[kind |-> "upsert_error", written |-> k] : k \in PartialWrites(n)}

(* _process_batch, lines 184-214: the exception is caught and printed *)
ProcessBatch(st, docs, outcome) == Upsert(st, PointsOf(docs), outcome.written)

BatchRecord(docs, outcome) ==
    [ids |-> [i \in 1..Len(docs) |-> docs[i].id],
     kind |-> outcome.kind,
     written |-> outcome.written]

IngestInit ==
    /\ bpc = "start"
    /\ source_dir \in SourceDirs
    /\ stream = <<>>
    /\ batch_docs = <<>>
    /\ count = 0
    /\ runs = 0
    /\ batches = <<>>
    /\ first_store = NoStore

(* everything of the retrievers but the collection *)
retrLocals == <<rpc, use_reranker, query, candidates, reranked, grouped, result,
                calls, predicted>>

(* python create_vector_db.py: the class body is executed; the annotation of
   line 53 names Any, which line 4 does not import, so an interpreter that
   evaluates annotations at definition time raises NameError *)
LoadModule ==
    /\ bpc = "start"
    /\ runs < MaxRuns
    /\ bpc' \in {"loaded", "import_error"}
    /\ UNCHANGED <<source_dir, stream, batch_docs, count, runs, batches, first_store, store>>

(* _init_collection, lines 36-51: an existing collection is kept with its
   points (the delete_collection of line 42 is commented out), a missing one
   is created empty *)
InitCollectionRecreate(st) == <<>>
InitCollection(st) == st

(* __init__ and _init_collection, lines 22-51 *)
Construct ==
    /\ bpc = "loaded"
    /\ bpc' = "ready"
    /\ store' = InitCollection(store)
    /\ UNCHANGED <<source_dir, stream, batch_docs, count, runs, batches, first_store>>

(* embed_and_upsert, lines 152-160 *)
StartIngest ==
    /\ bpc = "ready"
    /\ \E order \in Listings(source_dir) :
          stream' = ReadProcessedFiles(source_dir, order, 1)
    /\ batch_docs' = <<>>
    /\ count' = 0
    /\ batches' = <<>>
    /\ bpc' = "ingesting"
    /\ UNCHANGED <<source_dir, runs, first_store, store>>

(* line 170: the pending documents make a batch *)
BatchFullLate(docs) == Len(docs) > BATCH_SIZE
BatchFull(docs) == Len(docs) >= BATCH_SIZE

(* embed_and_upsert, lines 162-175: one document of the stream *)
IngestDoc ==
    /\ bpc = "ingesting"
    /\ stream # <<>>
    /\ stream' = Tail(stream)
    /\ LET docs == Append(batch_docs, Head(stream))
       IN  IF BatchFull(docs)
           THEN \E outcome \in BatchOutcomes(Len(docs)) :
                   /\ store' = ProcessBatch(store, docs, outcome)
                   /\ batches' = Append(batches, BatchRecord(docs, outcome))
                   /\ count' = count + Len(docs)
                   /\ batch_docs' = <<>>
           ELSE /\ batch_docs' = docs
                /\ UNCHANGED <<store, batches, count>>
    /\ UNCHANGED <<bpc, source_dir, runs, first_store>>

(* embed_and_upsert, lines 177-182: the remaining documents, and the return *)
FinishIngest ==
    /\ bpc = "ingesting"
    /\ stream = <<>>
    /\ IF batch_docs # <<>>
       THEN \E outcome \in BatchOutcomes(Len(batch_docs)) :
               /\ store' = ProcessBatch(store, batch_docs, outcome)
               /\ batches' = Append(batches, BatchRecord(batch_docs, outcome))
               /\ count' = count + Len(batch_docs)
       ELSE UNCHANGED <<store, batches, count>>
    /\ batch_docs' = <<>>
    /\ first_store' = IF runs = 0 THEN store' ELSE first_store
    /\ runs' = runs + 1
    /\ bpc' = "start"
    /\ UNCHANGED <<source_dir, stream>>

IngestSpecInit ==
    /\ IngestInit
    /\ SplitOff
    /\ DocOff
    /\ RetrOff

IngestNext ==
    \/ LoadModule /\ UNCHANGED <<splitVars, docVars, retrLocals>>
    \/ Construct /\ UNCHANGED <<splitVars, docVars, retrLocals>>
    \/ StartIngest /\ UNCHANGED <<splitVars, docVars, retrLocals>>
    \/ IngestDoc /\ UNCHANGED <<splitVars, docVars, retrLocals>>
    \/ FinishIngest /\ UNCHANGED <<splitVars, docVars, retrLocals>>

SpecIngest == IngestSpecInit /\ [][IngestNext]_vars

-----------------------------------------------------------------------------
(* End to end: json_to_rag_chunks.py run on a file of one law with one
   article, then create_vector_db.py on processed_docs, then a retriever on
   the collection.  The local store is opened by one process at a time, so
   the three run one after the other. *)

MAX_CHUNK_CHARS == 1000
OVERLAP_CHARS == 200

(* the article: 2500 characters without a space or a newline *)
E2EArticle ==
    [article_number |-> JInt(1), article_title |-> JStr(<<"A">>),
     is_canceled |-> JStr(<<"0">>), original_content |-> Missing,
     article_content |-> JStr([i \in 1..2500 |-> "a"])]

(* the law's categories, line 81 *)
E2ELawCategories == {"A"}

(* a file an earlier run left in processed_docs, in the format
   read_processed_files reads *)
OldTextFile == FileOf(<<"1", "0", "8", "1">>, ".txt", 1, HeaderA)

(* line 35: <base>_chunks.jsonl, one line per chunk object *)
ChunksFile(lines) ==
    [base |-> <<"l", "_", "c", "h", "u", "n", "k", "s">>, ext |-> ".jsonl",
     raw_chunks |-> lines]

E2EInit ==
    /\ max_chunk_chars = MAX_CHUNK_CHARS
    /\ overlap = OVERLAP_CHARS
    /\ text = <<>>
    /\ spc = "off"
    /\ start = 0
    /\ end = 0
    /\ chunks = <<>>
    /\ cuts = <<>>
    /\ raw_hit = FALSE
    /\ dpc = "corpus"
    /\ corpus = {E2EArticle}
    /\ law_id = <<>>
    /\ emitted = <<>>
    /\ article_count = 0
    /\ articles_seen = 0
    /\ last = NoArticle
    /\ rerun_ids = NoRun
    /\ bpc = "start"
    /\ source_dir \in {<<>>, <<OldTextFile>>}
    /\ stream = <<>>
    /\ batch_docs = <<>>
    /\ count = 0
    /\ runs = 0
    /\ batches = <<>>
    /\ first_store = NoStore
    /\ RetrOff

(* process_json_file, lines 30-60, on the file of one law (element_id 1) with
   the one article: its chunks are written to the .jsonl file *)
ProcessJsonFile ==
    /\ dpc = "corpus"
    /\ \E art \in corpus :
          LET law == LawId(JInt(1))
              content_text == ContentText(art)
              split == IF content_text = <<>>
                       THEN [ok |-> TRUE, chunks |-> <<>>]
                       ELSE SplitText(content_text, max_chunk_chars, overlap)
              out == ArticleChunks(law, art, split.chunks)
          IN  /\ split.ok
              /\ law_id' = law
              /\ emitted' = out
              /\ article_count' = Len(out)
              /\ source_dir' = Append(source_dir, ChunksFile(out))
    /\ articles_seen' = 1
    /\ dpc' = "written"
    /\ UNCHANGED <<splitVars, corpus, last, rerun_ids>>
    /\ UNCHANGED <<bpc, stream, batch_docs, count, runs, batches, first_store>>

(* CategorizedRAGRetriever.__init__ (lines 21-31) or
   CategorizedRAGRetrieverNoReranker.__init__ on the ingested collection *)
ConstructRetriever ==
    /\ rpc = "off"
    /\ bpc = "start"
    /\ runs >= 1
    /\ rpc' = "idle"
    /\ use_reranker' \in BOOLEAN
    /\ UNCHANGED <<store, query, candidates, reranked, grouped, result, calls, predicted>>

(* processed_docs between two runs of create_vector_db.py: main reads the
   directory as it is when the run starts (lines 217, 100-101), so the .txt
   files may have been removed or replaced since the last run *)
NewerTextFile == FileOf(<<"1", "0", "8", "2">>, ".txt", 1, HeaderAB)
TextFileSets == {<<>>, <<OldTextFile>>, <<NewerTextFile>>}
NotTextFile(file) == file.ext # ".txt"
EditedDirs(dir) ==
    {SelectSeq(dir, NotTextFile) \o txts : txts \in TextFileSets} \ {dir}

EditCorpus ==
    /\ bpc = "start"
    /\ runs >= 1
    /\ runs < MaxRuns
    /\ rpc = "off"
    /\ source_dir' \in EditedDirs(source_dir)
    /\ UNCHANGED <<bpc, stream, batch_docs, count, runs, batches, first_store>>

E2ENext ==
    \/ ProcessJsonFile /\ UNCHANGED retrVars
    \/ EditCorpus /\ UNCHANGED <<splitVars, docVars, retrVars>>
    \/ dpc = "written" /\ rpc = "off" /\ LoadModule
          /\ UNCHANGED <<splitVars, docVars, retrLocals>>
    \/ Construct /\ UNCHANGED <<splitVars, docVars, retrLocals>>
    \/ StartIngest /\ UNCHANGED <<splitVars, docVars, retrLocals>>
    \/ IngestDoc /\ UNCHANGED <<splitVars, docVars, retrLocals>>
    \/ FinishIngest /\ UNCHANGED <<splitVars, docVars, retrLocals>>
    \/ ConstructRetriever /\ UNCHANGED <<splitVars, docVars, dbVars>>
    \/ Retrieve /\ UNCHANGED <<splitVars, docVars, dbVars>>
    \/ NextQuery /\ UNCHANGED <<splitVars, docVars, dbVars>>

SpecEndToEnd == E2EInit /\ [][E2ENext]_vars

(* rerank has returned, inside retrieve or called on its own *)
Reranked == (rpc = "returned" /\ use_reranker) \/ rpc = "reranked"

(* the top_k rerank was called with: search_k inside retrieve (line 135) *)
RerankTopK == IF rpc = "returned" THEN query.search_k ELSE query.top_k

(* the position, in rerank's input, of the candidate with this id *)
InputPos(id) == CHOOSE p \in 1..Len(candidates) : candidates[p].id = id

(* C11: rerank returns min(top_k, len(candidates)) elements, each an input
   candidate carrying the score predict returned for its own pair, ordered by
   rerank score descending, equal scores in input order, and these are the
   first top_k of that order. *)
C11_RerankSortedStableTruncated ==
    Reranked =>
        /\ Len(reranked) = MinOf(RerankTopK, Len(candidates))
        /\ \A i \in 1..Len(reranked) :
              \E p \in 1..Len(candidates) :
                  /\ reranked[i].id = candidates[p].id
                  /\ reranked[i].payload = candidates[p].payload
                  /\ reranked[i].rerank_score = predicted[p]
        /\ \A i, j \in 1..Len(reranked) :
              i < j =>
                  \/ reranked[i].rerank_score > reranked[j].rerank_score
                  \/ /\ reranked[i].rerank_score = reranked[j].rerank_score
                     /\ InputPos(reranked[i].id) < InputPos(reranked[j].id)
        /\ \A p \in 1..Len(candidates) :
              (\A i \in 1..Len(reranked) : reranked[i].id # candidates[p].id) =>
                  \A i \in 1..Len(reranked) :
                      \/ reranked[i].rerank_score > predicted[p]
                      \/ /\ reranked[i].rerank_score = predicted[p]
                         /\ InputPos(reranked[i].id) < p

(* three candidates scored 1, 3, 3 and top_k = 2: the tie keeps the input
   order and the first candidate is cut off *)
C11_Witness ==
    /\ rpc = "reranked"
    /\ query.top_k = 2
    /\ predicted = <<1, 3, 3>>
    /\ Len(reranked) = 2
    /\ reranked[1].id = candidates[2].id
    /\ reranked[2].id = candidates[3].id

(* the steps the latest call entered *)
Entered == {calls[i] : i \in 1..Len(calls)}

(* C12: rerank called with an empty candidate list returns an empty list and
   never invokes reranker.predict. *)
C12_RerankEmptyNoPredict ==
    (Reranked /\ candidates = <<>>) =>
        /\ reranked = <<>>
        /\ "predict" \notin Entered

(* rerank was called on its own with an empty list over a store that holds
   nothing, and returned at once *)
C12_Witness ==
    /\ rpc = "reranked"
    /\ candidates = <<>>
    /\ reranked = <<>>
    /\ calls = <<"rerank">>

(* C13: retrieve never returns more than top_k results, and returns exactly
   top_k whenever search_k >= top_k and the search returned search_k
   candidates. *)
C13_ResultCardinality ==
    rpc = "returned" =>
        /\ Len(result) <= query.top_k
        /\ (query.search_k >= query.top_k /\ Len(candidates) = query.search_k)
              => Len(result) = query.top_k

(* the pipeline order of the specification: encode, search, rerank (with a
   reranker), group, slice *)
PipelineOrder == <<"encode", "search", "rerank", "predict", "group", "slice">>

StepRank(step) == CHOOSE i \in 1..Len(PipelineOrder) : PipelineOrder[i] = step

(* C14: the steps of retrieve run in the order encode, search, rerank, group,
   slice, and when the search returns no candidate the result is empty and
   neither the rerank step nor the group step is entered. *)
C14_EmptySearchShortCircuits ==
    rpc = "returned" =>
        /\ \A i, j \in 1..Len(calls) : i < j => StepRank(calls[i]) < StepRank(calls[j])
        /\ candidates = <<>> =>
              /\ result = <<>>
              /\ "rerank" \notin Entered
              /\ "group" \notin Entered

(* C15: when retrieve is called with a category c (any string, the empty
   one included), every candidate and every returned result has c among its
   payload categories. *)
C15_CategoryFilterExcludes ==
    (rpc = "returned" /\ query.category # NoneVal) =>
        /\ \A i \in 1..Len(candidates) : query.category \in candidates[i].payload.categories
        /\ \A i \in 1..Len(result) : query.category \in result[i].payload.categories

(* C17: every result RAGRetriever.retrieve returns carries the fields the
   test reads, a 'payload' map and a 'score', so that reading res['payload']
   on each returned result succeeds. *)
C17_PlainResultsCarryPayload ==
    /\ rpc = "plain_returned" =>
          \A k \in 1..Len(result) : {"payload", "score"} \subseteq DOMAIN result[k]
    /\ rpc # "KeyError"

(* C20: whenever overlap >= max_chunk_chars, after each window of
   _split_text the next window starts exactly at the previous window's end,
   so the start position strictly increases. *)
C20_DegenerateOverlapFallsBack ==
    (spc = "loop" /\ cuts # <<>> /\ overlap >= max_chunk_chars) =>
        /\ start = LastCut[2]
        /\ start > LastCut[1]

(* the text has a character that is not whitespace *)
HasVisible(t) == \E i \in 1..Len(t) : ~IsSpace(t[i])

(* C21 as claimed: for every non-empty text, whitespace-only texts longer
   than max_chars included, the sequence _split_text returns holds at least
   one window and no window in it is empty. *)
C21_NonEmptyTextYieldsWindow ==
    (spc = "done" /\ text # <<>>) =>
        /\ chunks # <<>>
        /\ \A k \in 1..Len(chunks) : chunks[k] # <<>>

(* C21: for every text that has at least one non-whitespace character, the
   sequence _split_text returns holds at least one window and no window in
   it is empty. *)
C21_VisibleTextYieldsWindow ==
    (spc = "done" /\ HasVisible(text)) =>
        /\ chunks # <<>>
        /\ \A k \in 1..Len(chunks) : chunks[k] # <<>>

(* a returned split of a long text in which some window was whitespace only
   and was dropped, the others kept *)
C21_Witness ==
    /\ spc = "done"
    /\ Len(text) > max_chunk_chars
    /\ HasVisible(text)
    /\ chunks # <<>>
    /\ Len(chunks) < Len(cuts)

(* ceil(a / b) for b > 0 *)
CeilDiv(a, b) == (a + b - 1) \div b

(* C22 as claimed: for overlap < max_chars the number of windows
   _split_text returns is at most ceil(len(text) / (max_chars - overlap)),
   for every text, texts whose windows the boundary lookback shortens
   included. *)
C22_WindowCountBound ==
    (spc = "done" /\ overlap < max_chunk_chars) =>
        Len(chunks) <= CeilDiv(Len(text), max_chunk_chars - overlap)

(* C22: for 0 <= overlap < max_chars the number of windows _split_text
   returns for a non-empty text that holds no newline and no space is at
   most ceil(len(text) / (max_chars - overlap)). *)
C22_WindowCountBoundNoLookback ==
    (spc = "done" /\ 0 <= overlap /\ overlap < max_chunk_chars /\ text # <<>>
        /\ \A i \in 1..Len(text) : ~IsSpace(text[i])) =>
        Len(chunks) <= CeilDiv(Len(text), max_chunk_chars - overlap)

(* a returned split of a text without whitespace into three or more
   overlapping windows, as many as the bound allows *)
C22_Witness ==
    /\ spc = "done"
    /\ overlap > 0
    /\ overlap < max_chunk_chars
    /\ \A i \in 1..Len(text) : ~IsSpace(text[i])
    /\ Len(chunks) >= 3
    /\ Len(chunks) = CeilDiv(Len(text), max_chunk_chars - overlap)

(* the positions of the window [st, raw) that a backward search of at most
   back characters from the raw cut point visits without reaching the
   window's start *)
WithinWindow(st, raw, back) == (MaxOf(st, raw - back) + 1)..(raw - 1)

(* the cut the boundary policy names for the window that starts at st: after
   the nearest newline of the last 100 characters, else after the nearest
   space of the last 50, else the raw cut point *)
PolicyCut(t, st, raw) ==
    LET nl == {i \in WithinWindow(st, raw, NewlineLookback) : PyAt(t, i) = NL}
        sp == {i \in WithinWindow(st, raw, SpaceLookback) : PyAt(t, i) = SP}
    IN  IF nl # {} THEN SetMax(nl) + 1
        ELSE IF sp # {} THEN SetMax(sp) + 1
        ELSE raw

(* C23: boundary policy of _split_text: when a window's raw cut point
   start + max_chars lies strictly inside the text, the cut is placed after
   the nearest newline found searching backward up to 100 characters, else
   after the nearest space found searching backward up to 50 characters,
   else at the raw cut point; the cut lies after the window's start and
   never beyond the raw cut point. *)
C23_BoundaryPolicy ==
    Len(text) > max_chunk_chars =>
        \A k \in 1..Len(cuts) :
            LET st == cuts[k][1]
                e == cuts[k][2]
                raw == st + max_chunk_chars
            IN  raw < Len(text) =>
                    /\ e = PolicyCut(text, st, raw)
                    /\ e > st
                    /\ e <= raw

(* the string has no leading and no trailing whitespace *)
IsTrimmed(s) == s = Strip(s)

(* C24 as claimed: for every input text, shorter or longer than max_chars,
   every window in the sequence _split_text returns is trimmed and none is
   empty. *)
C24_WindowsTrimmedNonEmpty ==
    spc = "done" =>
        \A k \in 1..Len(chunks) : IsTrimmed(chunks[k]) /\ chunks[k] # <<>>

(* C24: for every input text longer than max_chars, every window in the
   sequence _split_text returns is trimmed and none is empty: a window that
   is empty after trimming is dropped. *)
C24_LongTextWindowsTrimmed ==
    (spc = "done" /\ Len(text) > max_chunk_chars) =>
        \A k \in 1..Len(chunks) : IsTrimmed(chunks[k]) /\ chunks[k] # <<>>

(* a returned split of a long text with a window that lost whitespace to the
   trimming and a window that was dropped as empty *)
C24_Witness ==
    /\ spc = "done"
    /\ Len(text) > max_chunk_chars
    /\ Len(chunks) < Len(cuts)
    /\ \E k \in 1..Len(cuts) :
          LET raw == PySlice(text, cuts[k][1], cuts[k][2])
          IN  raw # Strip(raw) /\ Strip(raw) # <<>>

-----------------------------------------------------------------------------
(* Properties of the vector database builder, checked under SpecIngest *)

(* the points of a store, as a set *)
PointSet(st) == {st[i] : i \in 1..Len(st)}

(* the documents of the directory, and the point ids they are written under *)
CorpusDocs == ReadProcessedFiles(source_dir, [i \in 1..Len(source_dir) |-> i], 1)
CorpusPointIds ==
    LET docs == CorpusDocs
    IN  {PointId(docs[i]) : i \in 1..Len(docs)}

NoDuplicateIds(st) == \A i, j \in 1..Len(st) : st[i].id = st[j].id => i = j

(* C18, as stated: after a second ingestion of the unchanged directory the
   store holds exactly the points (ids and payloads) the first ingestion left,
   and no id twice. *)
C18_ReingestLeavesStoreUnchanged ==
    (bpc = "start" /\ runs >= 2) =>
        /\ PointSet(store) = PointSet(first_store)
        /\ NoDuplicateIds(store)

(* C18, amended: re-ingesting the unchanged directory never duplicates and
   never changes a point: the store holds at most one point per chunk, every
   point the first ingestion left is still there with its payload, and the
   store is exactly what the first ingestion left whenever that ingestion
   wrote every chunk (a chunk whose batch failed then may be written now). *)
C18_ReingestOverwrites ==
    LET ids == CorpusPointIds
    IN  /\ NoDuplicateIds(store)
        /\ \A i \in 1..Len(store) : store[i].id \in ids
        /\ runs >= 1 =>
              /\ PointSet(first_store) \subseteq PointSet(store)
              /\ Len(first_store) = Cardinality(ids) => PointSet(store) = PointSet(first_store)

(* both runs wrote both of their batches: the second run overwrote the
   MaxChunks points of the first *)
C18_Witness ==
    /\ bpc = "start"
    /\ runs = 2
    /\ Len(first_store) = MaxChunks
    /\ Len(batches) = 2
    /\ \A b \in 1..Len(batches) : batches[b].kind = "ok"
    /\ PointSet(store) = PointSet(first_store)

RECURSIVE BatchSizes(_, _)
BatchSizes(bs, k) == IF k > Len(bs) THEN 0 ELSE Len(bs[k].ids) + BatchSizes(bs, k + 1)

(* C19: a batch whose embedding or upsert fails is skipped, none of its
   points is written, and the run goes on: when it ends every document of the
   directory has been given to _process_batch, the batches after the failed
   one included. *)
C19_FailedBatchSkipped ==
    /\ \A b \in 1..Len(batches) : batches[b].kind # "ok" => batches[b].written = 0
    /\ (bpc = "start" /\ runs >= 1) => BatchSizes(batches, 1) = Cardinality(CorpusPointIds)

(* C16: one law with one article of 2500 characters, max_chars = 1000 and
   overlap = 200, gives exactly 4 chunks that share one group key, and a
   retrieve with top_k = 1, a search_k that covers the chunks and a category
   of the law returns exactly 1 result, whose group_count is 4. *)
C16_EndToEndFourChunks ==
    /\ dpc = "written" =>
          /\ Len(emitted) = 4
          /\ \A i \in 1..Len(emitted) :
                emitted[i].article_group_id = emitted[1].article_group_id
    /\ (/\ rpc = "returned"
        /\ query.top_k = 1
        /\ query.search_k = MaxK
        /\ query.category \in E2ELawCategories)
          => /\ Len(result) = 1
             /\ result[1].group_count = 4

-----------------------------------------------------------------------------
(* Properties of the collection, checked under SpecEndToEnd *)

(* the ids of the points of a store *)
StoredIds(st) == {st[i].id : i \in 1..Len(st)}

(* C25: the collection is append-only from the ingestion side and read-only
   from the retrieval side: no step of _init_collection or embed_and_upsert
   removes a point id from the store, also when the directory changed since
   the last run, and no step of a retriever changes a point or a payload. *)
C25_CollectionAppendOnly ==
    [][/\ StoredIds(store) \subseteq StoredIds(store')
       /\ (rpc # "off" \/ rpc' # "off") => store' = store]_vars

(* a retriever has answered a query on a collection ingested twice, the
   second time from a changed directory: a point whose chunk is gone from the
   directory is still stored, next to a point the second run added *)
C25_Witness ==
    /\ rpc = "returned"
    /\ result # <<>>
    /\ runs = 2
    /\ \E i \in 1..Len(store) : store[i].id \notin CorpusPointIds
    /\ \E i \in 1..Len(store) : store[i].id \notin StoredIds(first_store)


-----------------------------------------------------------------------------
(* Properties of the batching, checked under SpecIngest *)

(* the ids of a sequence of documents, and of the batches given to
   _process_batch so far, in the order they were given *)
DocIds(docs) == [i \in 1..Len(docs) |-> docs[i].id]
RECURSIVE BatchedIds(_, _)
BatchedIds(bs, k) == IF k > Len(bs) THEN <<>> ELSE bs[k].ids \o BatchedIds(bs, k + 1)

(* the id sequences the chunk stream may yield, one per listing order *)
StreamIds == {DocIds(ReadProcessedFiles(source_dir, order, 1)) : order \in Listings(source_dir)}

(* C26: batching in embed_and_upsert: the chunks given to _process_batch,
   followed by the pending buffer and the chunks not yet read, are the chunk
   stream, each chunk once and in stream order; every batch has between 1 and
   BATCH_SIZE chunks and every batch but the last exactly BATCH_SIZE; when
   the loop has ended the buffer is empty and every chunk has been given to
   _process_batch. *)
C26_Batching ==
    LET given == BatchedIds(batches, 1)
    IN  /\ \A b \in 1..Len(batches) :
              /\ Len(batches[b].ids) \in 1..BATCH_SIZE
              /\ b < Len(batches) => Len(batches[b].ids) = BATCH_SIZE
        /\ bpc = "ingesting" =>
              /\ Len(batch_docs) < BATCH_SIZE
              /\ (given \o DocIds(batch_docs) \o DocIds(stream)) \in StreamIds
              /\ batch_docs # <<>> =>
                    \A b \in 1..Len(batches) : Len(batches[b].ids) = BATCH_SIZE
        /\ (bpc # "ingesting" /\ runs >= 1) =>
              /\ batch_docs = <<>>
              /\ stream = <<>>
              /\ given \in StreamIds

(* a run has ended after a full batch and a flushed partial batch, the full
   batch holding chunks of two files *)
C26_Witness ==
    /\ bpc = "start"
    /\ runs >= 1
    /\ Len(batches) = 2
    /\ Len(batches[1].ids) = BATCH_SIZE
    /\ Len(batches[2].ids) < BATCH_SIZE
    /\ \E i, j \in 1..BATCH_SIZE : batches[1].ids[i][4] # batches[1].ids[j][4]

=============================================================================
